---- MODULE Spec2Model ----
(***************************************************************************)
(* rollup-plugin-overture (src/index.js): the load() transform that turns  *)
(* a markdown/HTML document tree (hast) into a JavaScript module whose     *)
(* default export is a draw() function.                                    *)
(*                                                                         *)
(* JavaScript strings are modelled as sequences of one-character strings,  *)
(* so that indexing, slicing and joining are computed as the code computes *)
(* them.  Indices keep JavaScript's 0-based convention.                    *)
(***************************************************************************)
EXTENDS Integers, Sequences, FiniteSets, TLC

VARIABLES
    document,    \* the tree the parsers produced (line 147), kept for reference
    pc,          \* the position of load() in its body
    hast,        \* the tree being transformed
    module,      \* the output Program
    imports,     \* the Map from lowercase name to imported View class name
    code,        \* what load() returned
    value,       \* the argument of a handleExpressions call
    parts,       \* the result of that call
    node,        \* the argument of a parseProperties call
    properties   \* the result of that call

vars == <<document, pc, hast, module, imports, code, value, parts, node, properties>>

(***************************************************************************)
(* Bounds of the model.                                                    *)
(***************************************************************************)
MaxLen == 6
MaxRootChildren == 3
MaxDepth == 2

(***************************************************************************)
(* JavaScript values.                                                      *)
(***************************************************************************)
\* str.slice(from, to) with 0-based, end-exclusive indices
slice(str, from, to) == SubSeq(str, from + 1, to)

\* a JavaScript array (as opposed to an ESTree node)
JsArray(items) == [type |-> "JsArray", items |-> items]

Array_isArray(v) == v.type = "JsArray"

\* a thrown exception, propagated by every caller
Throw(msg) == [type |-> "throw", message |-> msg]

IsThrow(v) == v.type = "throw"

null == [type |-> "null"]

\* a plain JavaScript object, its entries a function from key to value
JsObject(entries) == [type |-> "JsObject", entries |-> entries]

RECURSIVE SeqUpTo(_, _)
\* the sequences over S of length at most n
SeqUpTo(S, n) ==
    IF n = 0 THEN {<<>>}
    ELSE LET shorter == SeqUpTo(S, n - 1)
         IN  shorter \cup {Append(s, x) : s \in {t \in shorter : Len(t) = n - 1}, x \in S}

RECURSIVE FirstThrow(_)
\* the first thrown exception of a sequence of results, or null
FirstThrow(results) ==
    IF results = <<>> THEN null
    ELSE IF IsThrow(Head(results)) THEN Head(results)
    ELSE FirstThrow(Tail(results))

(***************************************************************************)
(* estree-builder constructors.                                            *)
(***************************************************************************)
e_str(v) == [type |-> "Literal", value |-> v]

e_id(name) == [type |-> "Identifier", name |-> name]

e_arr(elements) == [type |-> "ArrayExpression", elements |-> elements]

e_obj(props) == [type |-> "ObjectExpression", properties |-> props]

e_call(callee, args) == [type |-> "CallExpression", callee |-> callee, arguments |-> args]

e_new(callee, args) == [type |-> "NewExpression", callee |-> callee, arguments |-> args]

e_member(object, property) ==
    [type |-> "MemberExpression", object |-> object, property |-> property]

\* [parts...].join('')
e_join(items) == e_call(e_member(e_arr(items), e_id("join")), <<e_str(<<>>)>>)

(***************************************************************************)
(* acorn's parseExpressionAt(input, 0): the expression the input starts    *)
(* with; an input that starts with no expression is a SyntaxError.  The    *)
(* expression is kept as the text handed to the parser.                    *)
(***************************************************************************)
parseExpressionAt(input) ==
    IF input = <<>> THEN Throw("SyntaxError")
    ELSE [type |-> "Expression", source |-> input]

(***************************************************************************)
(* findExpression: the first balanced {...} span, or null.                 *)
(***************************************************************************)
RECURSIVE findExpressionFrom_everyBrace(_, _, _, _)
\* as findExpressionFrom, but every opening brace moves the start
findExpressionFrom_everyBrace(str, pos, openBraces, start) ==
    IF pos >= Len(str) THEN null
    ELSE LET c      == str[pos + 1]
             start1 == IF c = "{" THEN pos ELSE start
             open1  == IF c = "{" THEN openBraces + 1 ELSE openBraces
             open2  == IF c = "}" THEN open1 - 1 ELSE open1
         IN  IF c = "}" /\ open2 = 0
             THEN [type |-> "span", start |-> start1, end |-> pos]
             ELSE findExpressionFrom_everyBrace(str, pos + 1, open2, start1)

RECURSIVE findExpressionFrom(_, _, _, _)
findExpressionFrom(str, pos, openBraces, start) ==
    IF pos >= Len(str) THEN null
    ELSE LET c      == str[pos + 1]
             start1 == IF c = "{" /\ openBraces = 0 THEN pos ELSE start
             open1  == IF c = "{" THEN openBraces + 1 ELSE openBraces
             open2  == IF c = "}" THEN open1 - 1 ELSE open1
         IN  IF c = "}" /\ open2 = 0
             THEN [type |-> "span", start |-> start1, end |-> pos]
             ELSE findExpressionFrom(str, pos + 1, open2, start1)

findExpression(str) == findExpressionFrom(str, 0, 0, 0)

(***************************************************************************)
(* handleExpressions: a string literal, or the JavaScript array of the     *)
(* literal prefix, the parsed expression and the literal suffix.           *)
(***************************************************************************)
handleExpressions(v) ==
    LET pos == findExpression(v)
    IN  IF pos.type = "span"
        THEN LET expr   == parseExpressionAt(slice(v, pos.start + 1, pos.end))
                 prefix == IF pos.start > 0
                           THEN <<e_str(slice(v, 0, pos.start))>> ELSE <<>>
                 suffix == IF pos.end + 1 < Len(v)
                           THEN <<e_str(slice(v, pos.end + 1, Len(v)))>> ELSE <<>>
             IN  IF IsThrow(expr) THEN expr
                 ELSE JsArray(prefix \o <<expr>> \o suffix)
        ELSE e_str(v)

(***************************************************************************)
(* hast nodes.  A property value is a string or an array of tokens.        *)
(***************************************************************************)
Str(chars) == [type |-> "string", value |-> chars]

Tokens(items) == JsArray(items)

NoProperties == [k \in {} |-> Str(<<>>)]

Root(children) == [type |-> "root", children |-> children]

Element(tagName, props, children) ==
    [type |-> "element", tagName |-> tagName, properties |-> props, children |-> children]

Text(v) == [type |-> "text", value |-> v]

Comment(v) == [type |-> "comment", value |-> v]

NEWLINE == <<"\n">>

\* html-tag-names, as far as the modelled documents use it
standardTags == {"div", "script", "svg"}

RECURSIVE join(_, _)
\* Array.prototype.join
join(items, sep) ==
    IF items = <<>> THEN <<>>
    ELSE IF Len(items) = 1 THEN items[1]
    ELSE items[1] \o sep \o join(Tail(items), sep)

(***************************************************************************)
(* parseProperties: every property lowered to a literal or to a join call. *)
(***************************************************************************)
\* as lowerProperty, but the class names are joined with nothing between them
lowerProperty_noSpace(key, raw) ==
    LET v1 == IF key = "className" /\ Array_isArray(raw)
              THEN join(raw.items, <<>>) ELSE raw.value
        v2 == handleExpressions(v1)
    IN  IF IsThrow(v2) THEN v2
        ELSE IF Array_isArray(v2) THEN e_join(v2.items)
        ELSE v2

lowerProperty(key, raw) ==
    LET v1 == IF key = "className" /\ Array_isArray(raw)
              THEN join(raw.items, <<" ">>) ELSE raw.value
        v2 == handleExpressions(v1)
    IN  IF IsThrow(v2) THEN v2
        ELSE IF Array_isArray(v2) THEN e_join(v2.items)
        ELSE v2

parseProperties(n) ==
    LET lowered == [key \in DOMAIN n.properties |-> lowerProperty(key, n.properties[key])]
    IN  IF \E key \in DOMAIN lowered : IsThrow(lowered[key])
        THEN Throw("SyntaxError")
        ELSE JsObject(lowered)

(***************************************************************************)
(* handlers and toDraw.                                                    *)
(***************************************************************************)
handlers_root(n, children) ==
    [type |-> "ExportDefaultDeclaration",
     declaration |-> [type |-> "FunctionExpression", id |-> e_id("draw"),
                      params |-> <<e_id("ctx")>>,
                      body |-> <<[type |-> "ReturnStatement",
                                  argument |-> e_arr(children)]>>]]

handlers_element(n, children) ==
    IF n.tagName = "script"
    THEN Throw("Nested <script> tags are not supported!")
    ELSE LET props == parseProperties(n)
         IN  IF IsThrow(props) THEN props
             ELSE e_call(e_id("el"), <<e_str(n.tagName), e_obj(props.entries), e_arr(children)>>)

\* as handlers.text, but the segments are joined as parseProperties joins them
handlers_text_joined(n) ==
    LET v == handleExpressions(n.value)
    IN  IF Array_isArray(v) THEN e_join(v.items) ELSE v

handlers_text(n) == handleExpressions(n.value)

handlers_view(n, children) ==
    LET props == parseProperties(n)
    IN  IF IsThrow(props) THEN props
        ELSE e_new(e_id(n.tagName), <<e_obj(props.entries)>>)

handlerTypes == {"root", "element", "text", "view"}

handlers(n, children) ==
    CASE n.type = "root"    -> handlers_root(n, children)
      [] n.type = "element" -> handlers_element(n, children)
      [] n.type = "text"    -> handlers_text(n)
      [] n.type = "view"    -> handlers_view(n, children)

RECURSIVE flat(_)
\* the flattening of flatMap: an array result is spliced, any other is one entry
flat(results) ==
    IF results = <<>> THEN <<>>
    ELSE (IF Array_isArray(Head(results)) THEN Head(results).items ELSE <<Head(results)>>)
         \o flat(Tail(results))

\* as notEmptyLine, but nothing is filtered out
notEmptyLine_keepAll(child) == TRUE

notEmptyLine(child) == child.type # "text" \/ child.value # NEWLINE

RECURSIVE toDraw_throwUnknown(_)
\* as toDraw, but a node type with no handler is an error
toDraw_throwUnknown(n) ==
    IF n.type \in handlerTypes
    THEN IF "children" \in DOMAIN n
         THEN LET kept    == SelectSeq(n.children, notEmptyLine)
                  results == [i \in 1..Len(kept) |-> toDraw_throwUnknown(kept[i])]
                  thrown  == FirstThrow(results)
              IN  IF IsThrow(thrown) THEN thrown
                  ELSE handlers(n, flat(results))
         ELSE handlers(n, <<>>)
    ELSE Throw("Unsupported node type")

RECURSIVE toDraw(_)
toDraw(n) ==
    IF n.type \in handlerTypes
    THEN IF "children" \in DOMAIN n
         THEN LET kept    == SelectSeq(n.children, notEmptyLine)
                  results == [i \in 1..Len(kept) |-> toDraw(kept[i])]
                  thrown  == FirstThrow(results)
              IN  IF IsThrow(thrown) THEN thrown
                  ELSE handlers(n, flat(results))
         ELSE handlers(n, <<>>)
    ELSE null

(***************************************************************************)
(* acorn's parse(input, {sourceType, program}).  The text of a script is   *)
(* modelled as the sequence of its lines, one statement a line; parse      *)
(* appends the statements to the Program it is given.                      *)
(***************************************************************************)
ImportSpecifier(imported, local) ==
    [type |-> "ImportSpecifier", imported |-> imported, local |-> local]

ImportDeclaration(specifiers, source) ==
    [type |-> "ImportDeclaration", specifiers |-> specifiers, source |-> source]

ParseStatement(line) ==
    CASE line = "import { el } from 'overture/dom'" ->
            ImportDeclaration(<<ImportSpecifier("el", "el")>>, "overture/dom")
      [] line = "import { View } from 'overture/dom'" ->
            ImportDeclaration(<<ImportSpecifier("View", "View")>>, "overture/dom")
      [] line = "import { Foo, Svg, ClipPath } from './views'" ->
            ImportDeclaration(<<ImportSpecifier("Foo", "Foo"), ImportSpecifier("Svg", "Svg"),
                                ImportSpecifier("ClipPath", "ClipPath")>>, "./views")
      [] line = "import { Foo as FOO } from './other'" ->
            ImportDeclaration(<<ImportSpecifier("Foo", "FOO")>>, "./other")
      [] line = "const x = 1" ->
            [type |-> "VariableDeclaration", kind |-> "const", name |-> "x"]
      [] line = "undefined" ->
            [type |-> "ExpressionStatement", expression |-> e_id("undefined")]
      [] OTHER -> Throw("SyntaxError")

MODULE_TYPE == <<"m", "o", "d", "u", "l", "e">>

SCRIPT_TYPE == <<"s", "c", "r", "i", "p", "t">>

\* as parse, but the statements are put at the front of the Program
parse_atFront(input, sourceType, program) ==
    LET statements == [i \in 1..Len(input) |-> ParseStatement(input[i])]
    IN  IF IsThrow(FirstThrow(statements)) THEN Throw("SyntaxError")
        ELSE IF /\ sourceType # MODULE_TYPE
                /\ \E i \in 1..Len(statements) : statements[i].type = "ImportDeclaration"
        THEN Throw("SyntaxError")
        ELSE [program EXCEPT !.body = statements \o @]

parse(input, sourceType, program) ==
    LET statements == [i \in 1..Len(input) |-> ParseStatement(input[i])]
    IN  IF IsThrow(FirstThrow(statements)) THEN Throw("SyntaxError")
        ELSE IF /\ sourceType # MODULE_TYPE
                /\ \E i \in 1..Len(statements) : statements[i].type = "ImportDeclaration"
        THEN Throw("SyntaxError")
        ELSE [program EXCEPT !.body = @ \o statements]

\* script.value; parse reads String(undefined) for a child that has no value
scriptValue(script) == IF "value" \in DOMAIN script THEN script.value ELSE <<"undefined">>

\* const { type = 'script' } = element.properties
scriptType(element) ==
    IF "type" \in DOMAIN element.properties THEN element.properties["type"].value
    ELSE SCRIPT_TYPE

RECURSIVE parseEach(_, _, _)
\* element.children.forEach(script => parse(script.value, ...))
parseEach(scripts, sourceType, program) ==
    IF scripts = <<>> \/ IsThrow(program) THEN program
    ELSE parseEach(Tail(scripts), sourceType,
                   parse(scriptValue(Head(scripts)), sourceType, program))

isScript(element) == "tagName" \in DOMAIN element /\ element.tagName = "script"

RECURSIVE extractScripts(_, _)
\* the Program after the filter callback has run over the children, in order
extractScripts(children, program) ==
    IF children = <<>> \/ IsThrow(program) THEN program
    ELSE extractScripts(Tail(children),
                        IF isScript(Head(children))
                        THEN parseEach(Head(children).children,
                                       scriptType(Head(children)), program)
                        ELSE program)

notScript(element) == ~isScript(element)

(***************************************************************************)
(* The { el } import.                                                      *)
(***************************************************************************)
elImport == ImportSpecifier("el", "el")

isOvertureDomImport(stmt) ==
    stmt.type = "ImportDeclaration" /\ stmt.source = "overture/dom"

hasElImport(stmt) ==
    \E i \in 1..Len(stmt.specifiers) :
        stmt.specifiers[i].type = "ImportSpecifier" /\ stmt.specifiers[i].imported = "el"

\* module.body.find(...): the index of the first import from 'overture/dom', or 0
findOvertureDomImport(body) ==
    IF \E i \in 1..Len(body) : isOvertureDomImport(body[i])
    THEN CHOOSE i \in 1..Len(body) :
            /\ isOvertureDomImport(body[i])
            /\ \A j \in 1..(i - 1) : ~isOvertureDomImport(body[j])
    ELSE 0

addElImport(body) ==
    LET i == findOvertureDomImport(body)
    IN  IF i = 0
        THEN <<ImportDeclaration(<<elImport>>, "overture/dom")>> \o body
        ELSE IF hasElImport(body[i]) THEN body
        ELSE [body EXCEPT ![i].specifiers = Append(@, elImport)]

(***************************************************************************)
(* The imports Map and the classification of View elements.                *)
(***************************************************************************)
toLowerCase(name) ==
    CASE name = "Foo"      -> "foo"
      [] name = "FOO"      -> "foo"
      [] name = "Svg"      -> "svg"
      [] name = "View"     -> "view"
      [] name = "ClipPath" -> "clippath"
      [] name = "clipPath" -> "clippath"
      [] OTHER             -> name

\* /^[A-Z]/.test(name)
startsUpperCase(name) == name \in {"Foo", "FOO", "Svg", "View", "ClipPath"}

undefined == "undefined"

Map_get(map, key) == IF key \in DOMAIN map THEN map[key] ELSE undefined

Map_set(map, key, val) == [k \in DOMAIN map \cup {key} |-> IF k = key THEN val ELSE map[k]]

RECURSIVE collectSpecifiers(_, _)
collectSpecifiers(specifiers, map) ==
    IF specifiers = <<>> THEN map
    ELSE LET name == Head(specifiers).local
         IN  collectSpecifiers(Tail(specifiers),
                               IF startsUpperCase(name)
                               THEN Map_set(map, toLowerCase(name), name) ELSE map)

RECURSIVE collectImports(_, _)
collectImports(body, map) ==
    IF body = <<>> THEN map
    ELSE collectImports(Tail(body),
                        IF Head(body).type # "ImportDeclaration" THEN map
                        ELSE collectSpecifiers(Head(body).specifiers, map))

visitor(n, map) ==
    IF n.tagName \in standardTags THEN n
    ELSE LET klass == Map_get(map, n.tagName)
         IN  IF klass = undefined THEN n
             ELSE [n EXCEPT !.type = "view", !.tagName = klass]

\* as visitor, but the type is set from the lookup either way
visitor_setType(n, map) ==
    IF n.tagName \in standardTags THEN n
    ELSE LET klass == Map_get(map, n.tagName)
         IN  IF klass = undefined THEN [n EXCEPT !.type = "element"]
             ELSE [n EXCEPT !.type = "view", !.tagName = klass]

RECURSIVE visit_everyTag(_, _)
\* as visit, but the visitor runs on every node that has a tag name
visit_everyTag(n, map) ==
    LET n1 == IF "tagName" \in DOMAIN n THEN visitor_setType(n, map) ELSE n
    IN  IF "children" \in DOMAIN n1
        THEN [n1 EXCEPT !.children =
                 [i \in 1..Len(n1.children) |-> visit_everyTag(n1.children[i], map)]]
        ELSE n1

RECURSIVE visit(_, _)
\* visit(tree, 'element', visitor): the visitor runs on a node before its children
visit(n, map) ==
    LET n1 == IF n.type = "element" THEN visitor(n, map) ELSE n
    IN  IF "children" \in DOMAIN n1
        THEN [n1 EXCEPT !.children = [i \in 1..Len(n1.children) |-> visit(n1.children[i], map)]]
        ELSE n1

\* astring's generate(module): the statements of the Program, printed in order
generate(program) == program.body

(***************************************************************************)
(* The documents, strings and nodes the specifications start from.         *)
(***************************************************************************)
Alphabet == {"a", "{", "}"}

Strings == SeqUpTo(Alphabet, MaxLen)

ModuleProperties == [k \in {"type"} |-> Str(MODULE_TYPE)]

IdProperties == [k \in {"id"} |-> Str(<<"a">>)]

Script(props, lines) == Element("script", props, <<Text(lines)>>)

\* what may stand at the root of a document with script blocks
RootItems ==
    { Script(ModuleProperties, <<"import { el } from 'overture/dom'">>),
      Script(ModuleProperties, <<"import { View } from 'overture/dom'">>),
      Script(ModuleProperties, <<"import { Foo, Svg, ClipPath } from './views'">>),
      Script(ModuleProperties, <<"import { Foo as FOO } from './other'", "const x = 1">>),
      Script(NoProperties, <<"const x = 1">>),
      Script(NoProperties, <<"import { el } from 'overture/dom'">>),
      Element("script", ModuleProperties,
              <<Element("script", NoProperties, <<Text(<<"const x = 1">>)>>)>>),
      Element("foo", IdProperties, <<>>),
      Element("div", NoProperties, <<Element("script", NoProperties, <<>>)>>),
      Text(<<"a">>) }

\* the root items of a document are distinct
Documents ==
    {Root(children) :
        children \in {c \in SeqUpTo(RootItems, MaxRootChildren) :
                         \A i, j \in 1..Len(c) : c[i] = c[j] => i = j}}

TextValues == {<<"a">>, NEWLINE, <<"a", "{", "a", "}", "a">>, <<"{", "}">>}

Leaves == {Text(v) : v \in TextValues} \cup {Comment(<<"c">>)}

Tags == {"svg", "foo", "clipPath", "script"}

IdClassProperties ==
    [k \in {"id", "className"} |->
        IF k = "id" THEN Str(<<"a">>) ELSE Tokens(<<<<"a">>, <<"a">>>>)]

PropsChoices == {NoProperties, IdClassProperties}

RECURSIVE Nodes(_)
\* the nodes of nesting depth at most d, an element holding at most one child
Nodes(d) ==
    Leaves \cup
    {Element(t, p, c) : t \in Tags, p \in PropsChoices,
                        c \in {<<>>} \cup (IF d = 0 THEN {}
                                           ELSE {<<n>> : n \in Nodes(d - 1)})}

RECURSIVE SvgNamesInSvg(_, _)
\* the HTML parser lowercases tag names; it restores the case of SVG element
\* names (clipPath) inside an svg element only
SvgNamesInSvg(n, inSvg) ==
    "tagName" \in DOMAIN n =>
        /\ n.tagName = "clipPath" => inSvg
        /\ \A i \in 1..Len(n.children) :
              SvgNamesInSvg(n.children[i], inSvg \/ n.tagName = "svg")

ViewImports == Script(ModuleProperties, <<"import { Foo, Svg, ClipPath } from './views'">>)

\* a document: an optional script block, one tree, an optional trailing leaf
Trees ==
    {Root(scripts \o <<n>> \o tail) :
        scripts \in {<<>>, <<ViewImports>>},
        n \in {m \in Nodes(MaxDepth) : notScript(m) /\ SvgNamesInSvg(m, FALSE)},
        tail \in {<<>>} \cup {<<l>> : l \in Leaves}}

ClassNames ==
    {Str(<<"a">>)} \cup
    {Tokens(t) : t \in SeqUpTo({<<"a">>, <<"{", "a", "}">>}, 2)}

PropertyMaps ==
    {[k \in {"id"} |-> Str(s)] : s \in Strings}
    \cup {[k \in {"className"} |-> c] : c \in ClassNames}
    \cup {[k \in {"id", "className"} |-> IF k = "id" THEN Str(s) ELSE c] :
            s \in SeqUpTo(Alphabet, 3), c \in ClassNames}
    \cup {NoProperties}

emptyProgram == [type |-> "Program", body |-> <<>>]

emptyMap == [k \in {} |-> undefined]

(***************************************************************************)
(* load(): one action per step of its body.                                *)
(***************************************************************************)
InitLoad(documents) ==
    /\ document \in documents
    /\ hast = document
    /\ pc = "extract"
    /\ module = emptyProgram
    /\ imports = emptyMap
    /\ code = null
    /\ value = <<>>
    /\ parts = null
    /\ node = null
    /\ properties = null

Init == InitLoad(Documents)

InitTree == InitLoad(Trees)

\* lines 154-166
ExtractScripts ==
    /\ pc = "extract"
    /\ LET program == extractScripts(hast.children, module)
       IN  IF IsThrow(program)
           THEN /\ pc' = "failed"
                /\ UNCHANGED <<hast, module>>
           ELSE /\ pc' = "el"
                /\ hast' = [hast EXCEPT !.children = SelectSeq(@, notScript)]
                /\ module' = program
    /\ UNCHANGED <<document, imports, code, value, parts, node, properties>>

\* lines 168-186
AddElImport ==
    /\ pc = "el"
    /\ module' = [module EXCEPT !.body = addElImport(@)]
    /\ pc' = "imports"
    /\ UNCHANGED <<document, hast, imports, code, value, parts, node, properties>>

\* lines 188-201
CollectImports ==
    /\ pc = "imports"
    /\ imports' = collectImports(module.body, emptyMap)
    /\ pc' = "classify"
    /\ UNCHANGED <<document, hast, module, code, value, parts, node, properties>>

\* lines 203-215
ClassifyViews ==
    /\ pc = "classify"
    /\ hast' = visit(hast, imports)
    /\ pc' = "draw"
    /\ UNCHANGED <<document, module, imports, code, value, parts, node, properties>>

\* lines 217-221
Transpile ==
    /\ pc = "draw"
    /\ LET draw == toDraw(hast)
       IN  IF IsThrow(draw)
           THEN /\ pc' = "failed"
                /\ UNCHANGED module
           ELSE /\ pc' = "generate"
                /\ module' = [module EXCEPT !.body = Append(@, draw)]
    /\ UNCHANGED <<document, hast, imports, code, value, parts, node, properties>>

\* lines 223-226
Stringify ==
    /\ pc = "generate"
    /\ code' = generate(module)
    /\ pc' = "done"
    /\ UNCHANGED <<document, hast, module, imports, value, parts, node, properties>>

Next ==
    \/ ExtractScripts
    \/ AddElImport
    \/ CollectImports
    \/ ClassifyViews
    \/ Transpile
    \/ Stringify

Spec == Init /\ [][Next]_vars

SpecTree == InitTree /\ [][Next]_vars

(***************************************************************************)
(* handleExpressions and parseProperties on their own.                     *)
(***************************************************************************)
InitExpr ==
    /\ value \in Strings
    /\ parts = null
    /\ pc = "handleExpressions"
    /\ document = null
    /\ hast = null
    /\ module = emptyProgram
    /\ imports = emptyMap
    /\ code = null
    /\ node = null
    /\ properties = null

HandleExpressions ==
    /\ pc = "handleExpressions"
    /\ parts' = handleExpressions(value)
    /\ pc' = "returned"
    /\ UNCHANGED <<document, hast, module, imports, code, value, node, properties>>

SpecExpr == InitExpr /\ [][HandleExpressions]_vars

InitProps ==
    /\ node \in {[type |-> t, tagName |-> "foo", properties |-> p, children |-> <<>>] :
                    t \in {"element", "view"}, p \in PropertyMaps}
    /\ properties = null
    /\ pc = "parseProperties"
    /\ document = null
    /\ hast = null
    /\ module = emptyProgram
    /\ imports = emptyMap
    /\ code = null
    /\ value = <<>>
    /\ parts = null

ParseProperties ==
    /\ pc = "parseProperties"
    /\ properties' = parseProperties(node)
    /\ pc' = "returned"
    /\ UNCHANGED <<document, hast, module, imports, code, value, parts, node>>

SpecProps == InitProps /\ [][ParseProperties]_vars

(***************************************************************************)
(* The brace span of a string, stated from the depth counter alone.        *)
(***************************************************************************)
\* the brace depth after the first i characters of str
Depth(str, i) ==
    Cardinality({j \in 1..i : str[j] = "{"}) - Cardinality({j \in 1..i : str[j] = "}"})

\* the closing braces that return the depth to 0
Closings(str) == {j \in 1..Len(str) : str[j] = "}" /\ Depth(str, j) = 0}

HasSpan(str) == Closings(str) # {}

SpanEnd(str) == CHOOSE j \in Closings(str) : \A k \in Closings(str) : j <= k

\* the opening braces before the span's end that took the depth from 0 to 1
Openings(str) ==
    {i \in 1..SpanEnd(str) : str[i] = "{" /\ Depth(str, i - 1) = 0 /\ Depth(str, i) = 1}

SpanStart(str) == CHOOSE i \in Openings(str) : TRUE

SpanInner(str) == SubSeq(str, SpanStart(str) + 1, SpanEnd(str) - 1)

SpanPrefix(str) == SubSeq(str, 1, SpanStart(str) - 1)

SpanSuffix(str) == SubSeq(str, SpanEnd(str) + 1, Len(str))

LiteralIfAny(str) == IF str = <<>> THEN <<>> ELSE <<[type |-> "Literal", value |-> str]>>

\* the segments of a string that has a span whose inner text parses
Segments(str) ==
    LiteralIfAny(SpanPrefix(str))
    \o <<[type |-> "Expression", source |-> SpanInner(str)]>>
    \o LiteralIfAny(SpanSuffix(str))

\* the span's inner text is no expression
Malformed(str) == HasSpan(str) /\ IsThrow(parseExpressionAt(SpanInner(str)))

RECURSIVE SourceOf(_)
\* the text a sequence of segments was cut from
SourceOf(segments) ==
    IF segments = <<>> THEN <<>>
    ELSE (IF Head(segments).type = "Literal" THEN Head(segments).value
          ELSE <<"{">> \o Head(segments).source \o <<"}">>)
         \o SourceOf(Tail(segments))

(***************************************************************************)
(* C4: handleExpressions returns the whole string as one literal when no   *)
(* closing brace returns the depth to 0; otherwise it returns, in order,   *)
(* the non-empty literal before the opening brace that took the depth from *)
(* 0 to 1 (there is exactly one before the span's end), the expression     *)
(* parsed from the characters strictly between that brace and the first    *)
(* closing brace that returns the depth to 0, and the non-empty literal    *)
(* after it; the pieces with the two braces spell the input again.  When   *)
(* the inner text is no expression the call throws.                        *)
(***************************************************************************)
C4_FirstSpanSplit ==
    pc = "returned" =>
        IF ~HasSpan(value)
        THEN parts = e_str(value)
        ELSE /\ Cardinality(Openings(value)) = 1
             /\ IF Malformed(value)
                THEN IsThrow(parts)
                ELSE /\ Array_isArray(parts)
                     /\ parts.items = Segments(value)
                     /\ SourceOf(parts.items) = value

\* a prefix, an expression and a suffix that still holds a later {...} span
C4_Witness ==
    /\ pc = "returned"
    /\ Array_isArray(parts)
    /\ Len(parts.items) = 3
    /\ parts.items[1].type = "Literal"
    /\ HasSpan(parts.items[3].value)

RECURSIVE SpaceSeparated(_)
SpaceSeparated(tokens) ==
    IF tokens = <<>> THEN <<>>
    ELSE IF Len(tokens) = 1 THEN tokens[1]
    ELSE SpaceSeparated(SubSeq(tokens, 1, Len(tokens) - 1)) \o <<" ">> \o tokens[Len(tokens)]

\* the string an attribute stands for
AttributeString(key, raw) ==
    IF key = "className" /\ raw.type = "JsArray" THEN SpaceSeparated(raw.items) ELSE raw.value

JoinCallOver(segments) ==
    [type |-> "CallExpression",
     callee |-> [type |-> "MemberExpression",
                 object |-> [type |-> "ArrayExpression", elements |-> segments],
                 property |-> [type |-> "Identifier", name |-> "join"]],
     arguments |-> <<[type |-> "Literal", value |-> <<>>]>>]

LoweredAttribute(str) ==
    IF HasSpan(str) THEN JoinCallOver(Segments(str)) ELSE [type |-> "Literal", value |-> str]

(***************************************************************************)
(* C10: parseProperties yields exactly one entry for every attribute,      *)
(* under the attribute's name.  An array-valued className is first joined  *)
(* with single spaces; a value with no span becomes the string literal of  *)
(* the value, a value with a span becomes [segments...].join('') over its  *)
(* segments in order.  The call throws exactly when some value's inner     *)
(* text is no expression.                                                  *)
(***************************************************************************)
C10_OneEntryPerAttribute ==
    pc = "returned" /\ node.type \in {"element", "view"} =>
        LET strings == [key \in DOMAIN node.properties |->
                            AttributeString(key, node.properties[key])]
        IN  IF \E key \in DOMAIN strings : Malformed(strings[key])
            THEN IsThrow(properties)
            ELSE /\ properties.type = "JsObject"
                 /\ DOMAIN properties.entries = DOMAIN node.properties
                 /\ \A key \in DOMAIN strings :
                        properties.entries[key] = LoweredAttribute(strings[key])

\* a className of two tokens lowered to a join call beside a literal id
C10_Witness ==
    /\ pc = "returned"
    /\ node.type = "element"
    /\ DOMAIN node.properties = {"id", "className"}
    /\ node.properties["className"].type = "JsArray"
    /\ Len(node.properties["className"].items) = 2
    /\ properties.type = "JsObject"
    /\ properties.entries["className"].type = "CallExpression"
    /\ Len(properties.entries["className"].callee.object.elements) = 2
    /\ properties.entries["id"].type = "Literal"

(***************************************************************************)
(* What a document holds, read off the tree the parsers produced.          *)
(***************************************************************************)
IsScriptElement(n) == n.type = "element" /\ n.tagName = "script"

HasChildren(n) == "children" \in DOMAIN n

RECURSIVE HoldsScript(_)
\* a script element stands somewhere below n
HoldsScript(n) ==
    /\ HasChildren(n)
    /\ \E i \in 1..Len(n.children) :
          IsScriptElement(n.children[i]) \/ HoldsScript(n.children[i])

\* a script element that is no immediate child of the root
HasNestedScript(doc) == \E i \in 1..Len(doc.children) : HoldsScript(doc.children[i])

RECURSIVE WithoutScripts(_)
\* the children that are no script elements, in order
WithoutScripts(children) ==
    IF children = <<>> THEN <<>>
    ELSE (IF IsScriptElement(Head(children)) THEN <<>> ELSE <<Head(children)>>)
         \o WithoutScripts(Tail(children))

RECURSIVE StatementsOfTexts(_)
\* the statements written in the text children of a script block
StatementsOfTexts(texts) ==
    IF texts = <<>> THEN <<>>
    ELSE (IF Head(texts).type = "text"
          THEN [i \in 1..Len(Head(texts).value) |-> ParseStatement(Head(texts).value[i])]
          ELSE <<>>)
         \o StatementsOfTexts(Tail(texts))

\* every root-level script block holds text only
BlocksHoldText(children) ==
    \A i \in 1..Len(children) :
        IsScriptElement(children[i]) =>
            \A j \in 1..Len(children[i].children) : children[i].children[j].type = "text"

RECURSIVE StatementsOfBlocks(_)
\* the statements of the root-level script blocks, in document order
StatementsOfBlocks(children) ==
    IF children = <<>> THEN <<>>
    ELSE (IF IsScriptElement(Head(children))
          THEN StatementsOfTexts(Head(children).children) ELSE <<>>)
         \o StatementsOfBlocks(Tail(children))

\* the elements of the array the generated draw function returns
Returned(program) ==
    program.body[Len(program.body)].declaration.body[1].argument.elements

AfterImportStep == pc \in {"imports", "classify", "draw", "generate", "done"}

Emitted == pc \in {"generate", "done"}

ElSpecifiers(body) ==
    {<<i, j>> \in (1..Len(body)) \X (1..3) :
        /\ body[i].type = "ImportDeclaration"
        /\ body[i].source = "overture/dom"
        /\ j <= Len(body[i].specifiers)
        /\ body[i].specifiers[j].type = "ImportSpecifier"
        /\ body[i].specifiers[j].imported = "el"}

(***************************************************************************)
(* C1: once the { el } import step has run, the import declarations of the *)
(* module hold exactly one specifier that imports el from 'overture/dom'.  *)
(***************************************************************************)
C1_ExactlyOneElImport == AfterImportStep => Cardinality(ElSpecifiers(module.body)) = 1

SameStatement(actual, expected) ==
    IF expected.type = "ImportDeclaration"
    THEN /\ actual.type = "ImportDeclaration"
         /\ actual.source = expected.source
         /\ \/ actual.specifiers = expected.specifiers
            \/ actual.specifiers = Append(expected.specifiers, elImport)
    ELSE actual = expected

RECURSIVE Embeds(_, _)
\* the expected statements occur in the body, in order
Embeds(body, expected) ==
    IF expected = <<>> THEN TRUE
    ELSE IF body = <<>> THEN FALSE
    ELSE IF SameStatement(Head(body), Head(expected))
    THEN Embeds(Tail(body), Tail(expected))
    ELSE Embeds(Tail(body), expected)

IsDrawExport(stmt) ==
    /\ stmt.type = "ExportDefaultDeclaration"
    /\ stmt.declaration.id.name = "draw"

(***************************************************************************)
(* C5: after the extraction no script element is left among the root's     *)
(* children, which are the document's other children in order; the emitted *)
(* module holds the statements of the script blocks in document order      *)
(* (with at most { el } added to an import's specifiers; when the blocks    *)
(* hold text only, nothing else but at most one prepended { el } import),  *)
(* and the draw function is its last statement.                            *)
(***************************************************************************)
C5_ScriptsInOrderDrawLast ==
    /\ pc \in {"el", "imports", "classify"} => hast.children = WithoutScripts(document.children)
    /\ pc \in {"draw", "generate", "done"} =>
          /\ Len(hast.children) = Len(WithoutScripts(document.children))
          /\ \A i \in 1..Len(hast.children) : hast.children[i].type # "element"
                                               \/ hast.children[i].tagName # "script"
    /\ Emitted =>
          LET body     == module.body
              expected == StatementsOfBlocks(document.children)
              k        == Len(body) - Len(expected) - 1
          IN  /\ Embeds(SubSeq(body, 1, Len(body) - 1), expected)
              /\ BlocksHoldText(document.children) =>
                    /\ k \in {0, 1}
                    /\ k = 1 => body[1] = ImportDeclaration(<<elImport>>, "overture/dom")
                    /\ \A i \in 1..Len(expected) : SameStatement(body[k + i], expected[i])
              /\ IsDrawExport(body[Len(body)])
              /\ \A i \in 1..(Len(body) - 1) : body[i].type # "ExportDefaultDeclaration"
    /\ pc = "done" => code = module.body

\* two script blocks around a visible node, compiled to the end
C5_Witness ==
    /\ pc = "done"
    /\ Len(document.children) = 3
    /\ IsScriptElement(document.children[1])
    /\ ~IsScriptElement(document.children[2])
    /\ IsScriptElement(document.children[3])
    /\ Len(StatementsOfBlocks(document.children)) = 3
    /\ StatementsOfBlocks(document.children)[1] # StatementsOfBlocks(document.children)[2]

ImportedViewNames ==
    {name \in {"Foo", "FOO", "Svg", "View", "ClipPath", "el"} :
        /\ startsUpperCase(name)
        /\ \E i \in 1..Len(module.body) :
              /\ module.body[i].type = "ImportDeclaration"
              /\ \E j \in 1..Len(module.body[i].specifiers) :
                    module.body[i].specifiers[j].local = name}

\* what the draw function holds for a node of the document
LoweringOf(n) == toDraw(visit(n, imports))

IsElCall(x) == x.type = "CallExpression" /\ x.callee = [type |-> "Identifier", name |-> "el"]

IsInstantiationOf(x, n) ==
    /\ x.type = "NewExpression"
    /\ x.callee.name \in ImportedViewNames
    /\ toLowerCase(x.callee.name) = toLowerCase(n.tagName)
    /\ Len(x.arguments) = 1
    /\ x.arguments[1].type = "ObjectExpression"
    /\ DOMAIN x.arguments[1].properties = DOMAIN n.properties

RECURSIVE ComponentsInstantiated(_)
ComponentsInstantiated(n) ==
    /\ n.type = "element" =>
          IF n.tagName \in standardTags
          THEN IsElCall(LoweringOf(n))
          ELSE (\E name \in ImportedViewNames : toLowerCase(name) = toLowerCase(n.tagName))
                  => IsInstantiationOf(LoweringOf(n), n)
    /\ HasChildren(n) => \A i \in 1..Len(n.children) : ComponentsInstantiated(n.children[i])

(***************************************************************************)
(* C2: in an emitted module, every element (at any depth) whose tag is no  *)
(* standard tag and whose lowercased tag equals the lowercased name of an  *)
(* imported name that starts with an uppercase letter is lowered to        *)
(* new <that name>({attributes}), and every element with a standard tag is *)
(* lowered to a call of el.                                                *)
(***************************************************************************)
C2_ComponentsInstantiated ==
    Emitted => \A i \in 1..Len(document.children) :
                  IsScriptElement(document.children[i])
                  \/ ComponentsInstantiated(document.children[i])

RECURSIVE PromotedFrom(_, _)
PromotedFrom(before, after) ==
    /\ DOMAIN after = DOMAIN before
    /\ \/ after.type = before.type /\ ("tagName" \in DOMAIN before => after.tagName = before.tagName)
       \/ before.type = "element" /\ after.type = "view"
    /\ "value" \in DOMAIN before => after.value = before.value
    /\ "properties" \in DOMAIN before => after.properties = before.properties
    /\ HasChildren(before) =>
          /\ Len(after.children) = Len(before.children)
          /\ \A i \in 1..Len(before.children) : PromotedFrom(before.children[i], after.children[i])

Classified == pc \in {"draw", "generate", "done"}

(***************************************************************************)
(* C7: classifying the classified tree again changes nothing, and the      *)
(* classified tree differs from the extracted one only in elements that    *)
(* became views (with the tag name the import table gives).                *)
(***************************************************************************)
C7_ClassifierIdempotent ==
    Classified =>
        /\ visit(hast, imports) = hast
        /\ PromotedFrom(Root(WithoutScripts(document.children)), hast)

\* a view nested in a view
C7_Witness ==
    /\ pc = "draw"
    /\ hast.children[1].type = "view"
    /\ Len(hast.children[1].children) = 1
    /\ hast.children[1].children[1].type = "view"
    /\ hast.children[1].children[1].tagName = "Foo"

(***************************************************************************)
(* How the entries of a lowered children array answer to the children.     *)
(***************************************************************************)
KeptChild(n) == ~(n.type = "text" /\ n.value = <<"\n">>)

Unsupported(n) == n.type \notin {"root", "element", "text", "view"}

RECURSIVE HoldsUnsupported(_)
HoldsUnsupported(n) ==
    \/ Unsupported(n)
    \/ HasChildren(n) /\ \E i \in 1..Len(n.children) : HoldsUnsupported(n.children[i])

RECURSIVE HoldsMalformed(_)
\* some text or attribute below n has a span whose inner text is no expression
HoldsMalformed(n) ==
    \/ n.type = "text" /\ Malformed(n.value)
    \/ "properties" \in DOMAIN n
       /\ \E key \in DOMAIN n.properties :
             Malformed(AttributeString(key, n.properties[key]))
    \/ HasChildren(n) /\ \E i \in 1..Len(n.children) : HoldsMalformed(n.children[i])

\* the entries a text contributes
TextEntries(str) ==
    IF HasSpan(str) THEN Segments(str) ELSE <<[type |-> "Literal", value |-> str]>>

RECURSIVE EntriesMatch(_, _)
\* the entries are, child by child: the segments of a text, one null for a
\* node of an unsupported type, one el call for an element (its third
\* argument matching the element's children), one new expression for a view
EntriesMatch(children, entries) ==
    IF children = <<>> THEN entries = <<>>
    ELSE LET c == Head(children)
         IN  IF ~KeptChild(c) THEN EntriesMatch(Tail(children), entries)
             ELSE IF c.type = "text"
             THEN LET segments == TextEntries(c.value)
                  IN  /\ Len(entries) >= Len(segments)
                      /\ SubSeq(entries, 1, Len(segments)) = segments
                      /\ EntriesMatch(Tail(children),
                                      SubSeq(entries, Len(segments) + 1, Len(entries)))
             ELSE /\ entries # <<>>
                  /\ CASE Unsupported(c)     -> Head(entries).type = "null"
                       [] c.type = "element" ->
                            /\ IsElCall(Head(entries))
                            /\ EntriesMatch(c.children, Head(entries).arguments[3].elements)
                       [] c.type = "view"    -> Head(entries).type = "NewExpression"
                  /\ EntriesMatch(Tail(children), Tail(entries))

RECURSIVE OneEntryEach(_, _)
\* as EntriesMatch, but a text contributes one entry: its literal, or the
\* join call over its segments
OneEntryEach(children, entries) ==
    IF children = <<>> THEN entries = <<>>
    ELSE LET c == Head(children)
         IN  IF ~KeptChild(c) THEN OneEntryEach(Tail(children), entries)
             ELSE /\ entries # <<>>
                  /\ CASE c.type = "text"    -> Head(entries) = LoweredAttribute(c.value)
                       [] Unsupported(c)     -> Head(entries).type = "null"
                       [] c.type = "element" ->
                            /\ IsElCall(Head(entries))
                            /\ OneEntryEach(c.children, Head(entries).arguments[3].elements)
                       [] c.type = "view"    -> Head(entries).type = "NewExpression"
                  /\ OneEntryEach(Tail(children), Tail(entries))

C8_UnsupportedNodeFails ==
    HoldsUnsupported(Root(WithoutScripts(document.children))) => ~Emitted /\ code = null

RECURSIVE NullEntries(_)
\* the null entries of a children array and of the el calls in it
NullEntries(entries) ==
    IF entries = <<>> THEN 0
    ELSE (IF Head(entries).type = "null" THEN 1
          ELSE IF IsElCall(Head(entries)) THEN NullEntries(Head(entries).arguments[3].elements)
          ELSE 0)
         + NullEntries(Tail(entries))

RECURSIVE UnsupportedNodes(_)
\* the nodes of an unsupported type among the children and below the elements
UnsupportedNodes(children) ==
    IF children = <<>> THEN 0
    ELSE (IF Unsupported(Head(children)) THEN 1
          ELSE IF Head(children).type = "element" THEN UnsupportedNodes(Head(children).children)
          ELSE 0)
         + UnsupportedNodes(Tail(children))

(***************************************************************************)
(* C8 as amended: a node of a type that has no handler does not fail the   *)
(* compilation; it is lowered to null, which stands as one empty entry at  *)
(* its place in the children array of its parent.                          *)
(***************************************************************************)
C8_UnsupportedNodeIsNull ==
    /\ pc = "failed" => HasNestedScript(document) \/ HoldsMalformed(document)
    /\ Emitted =>
          /\ NullEntries(Returned(module)) = UnsupportedNodes(hast.children)
          /\ \A i \in 1..Len(hast.children) :
                Unsupported(hast.children[i]) /\ (\A j \in 1..Len(hast.children) :
                                                     hast.children[j].type # "text")
                    => Returned(module)[i].type = "null"

\* a comment inside an element and one at the root, both compiled to null
C8_Witness ==
    /\ pc = "done"
    /\ Len(hast.children) = 2
    /\ hast.children[1].type = "element"
    /\ Len(hast.children[1].children) = 1
    /\ hast.children[1].children[1].type = "comment"
    /\ hast.children[2].type = "comment"
    /\ NullEntries(Returned(module)) = 2

RECURSIVE PlainNode(_)
PlainNode(n) ==
    \/ n.type = "text" /\ ~HasSpan(n.value)
    \/ /\ n.type = "element"
       /\ n.tagName # "script"
       /\ \A key \in DOMAIN n.properties : ~HasSpan(AttributeString(key, n.properties[key]))
       /\ \A i \in 1..Len(n.children) : PlainNode(n.children[i])

PlainDocument(doc) == \A i \in 1..Len(doc.children) : PlainNode(doc.children[i])

RECURSIVE Mirror(_)
Mirror(children) ==
    [i \in 1..Len(children) |->
        IF children[i].type = "text"
        THEN [type |-> "Literal", value |-> children[i].value]
        ELSE [type |-> "CallExpression",
              callee |-> [type |-> "Identifier", name |-> "el"],
              arguments |->
                  <<[type |-> "Literal", value |-> children[i].tagName],
                    [type |-> "ObjectExpression",
                     properties |->
                         [key \in DOMAIN children[i].properties |->
                             [type |-> "Literal",
                              value |-> AttributeString(key, children[i].properties[key])]]],
                    [type |-> "ArrayExpression", elements |-> Mirror(children[i].children)]>>]]

(***************************************************************************)
(* C6 as claimed: for a document of elements and texts with no script, no  *)
(* brace span and no component, the array the draw function returns        *)
(* mirrors the tree: an el call for every element, with its tag, its       *)
(* attributes and its children in order, a string literal for every text.  *)
(***************************************************************************)
C6_MirrorsEveryNode ==
    PlainDocument(document) =>
        /\ pc # "failed"
        /\ Emitted => Returned(module) = Mirror(document.children)

RECURSIVE WithoutEmptyLines(_)
WithoutEmptyLines(children) ==
    IF children = <<>> THEN <<>>
    ELSE LET c == Head(children)
         IN  (IF ~KeptChild(c) THEN <<>>
              ELSE IF HasChildren(c)
              THEN <<[c EXCEPT !.children = WithoutEmptyLines(@)]>>
              ELSE <<c>>)
             \o WithoutEmptyLines(Tail(children))

(***************************************************************************)
(* C6 as amended: the returned array mirrors the tree with the texts whose *)
(* value is exactly one newline left out, at every depth; every other node *)
(* is kept, in order.                                                      *)
(***************************************************************************)
C6_MirrorsButEmptyLines ==
    PlainDocument(document) =>
        /\ pc # "failed"
        /\ Emitted => Returned(module) = Mirror(WithoutEmptyLines(document.children))

\* an element in an element, a kept text and a dropped newline, compiled
C6_Witness ==
    /\ pc = "done"
    /\ PlainDocument(document)
    /\ Len(document.children) = 2
    /\ document.children[1].type = "element"
    /\ Len(document.children[1].children) = 1
    /\ document.children[1].children[1].type = "element"
    /\ DOMAIN document.children[1].children[1].properties = {"id", "className"}
    /\ Len(document.children[1].children[1].children) = 1
    /\ document.children[1].children[1].children[1] = [type |-> "text", value |-> <<"\n">>]
    /\ document.children[2] = [type |-> "text", value |-> <<"a">>]
    /\ Len(Returned(module)) = 2

====
